---- MODULE Spec2Model ----
(***************************************************************************)
(* Disk Scheduling Algorithm Simulator (SSTF & C-SCAN), src/Simulation.py. *)
(*                                                                         *)
(* Two specifications live in this module:                                 *)
(*   SchedSpec  the two scheduling functions sstf and cscan, applied to    *)
(*              arguments drawn from bounded sets; sstf runs one outer     *)
(*              loop iteration per step so every selection is observable;  *)
(*   Spec       the DiskSchedulerApp object: its fields, its input         *)
(*              widgets, the three button handlers and the timer callback. *)
(* Python lists are modelled as TLA+ sequences, so list index i of the     *)
(* source is index i + 1 here.                                             *)
(***************************************************************************)
EXTENDS Integers, Sequences, FiniteSets, TLC

\* ------------------------------------------------------------------------
\* Bounds of the scheduling-function specification
\* ------------------------------------------------------------------------
MaxLen == 3
MaxCyl == 4

\* Bound of the application specification: pending timer callbacks
MaxTimers == 2

\* ------------------------------------------------------------------------
\* State
\* ------------------------------------------------------------------------
VARIABLES
    \* scheduling-function specification
    call,               \* arguments of the call: fn, requests_list, head, disk_size, count_jump
    frame,              \* locals of sstf: seq, total, visited, cur
    pc,                 \* "ready", "sstf" (inside the outer loop), "done"
    ret,                \* returned pair: seq, total
    \* DiskSchedulerApp: fields
    requests,           \* self.requests
    seek_sequence,      \* self.seek_sequence
    total_seek,         \* self.total_seek
    animation_index,    \* self.animation_index
    head_position,      \* self.head_position
    scale_px,           \* self.scale_px, as the d of canvas_w / d; 0 while unset
    table_rows,         \* self.table_rows: the per-move rows
    \* DiskSchedulerApp: widgets
    combo_num,          \* text of the Number of Requests box
    entry_disk,         \* text of the Disk Size entry
    entry_head,         \* text of the Initial Head entry
    entry_ms,           \* text of the ms/cylinder entry
    combo_algo,         \* text of the Algorithm box
    count_jump_var,     \* the Count jump cost check box, 0 or 1
    btn_simulate,       \* state of the Simulate button
    placeholders,       \* number of empty placeholder rows in the table grid
    lbl_reqs,           \* the list shown after "Disk Requests:"
    queue_label,        \* the list shown after "Seek Sequence:"
    total_seek_var,     \* the Total Seek Distance shown
    avg_seek_var,       \* the Average Seek shown, as <<numerator, denominator>>
    gantt_canvas,       \* the items on the Gantt canvas, in drawing order
    \* Tk event loop
    timers,             \* number of pending master.after(animate_seek_step) callbacks
    \* history
    last                \* the latest run of simulate: what it read and how it ended

schedvars == <<call, frame, pc, ret>>

fieldvars == <<requests, seek_sequence, total_seek, animation_index,
               head_position, scale_px, table_rows>>

inputvars == <<combo_num, entry_disk, entry_head, entry_ms, combo_algo,
               count_jump_var>>

displayvars == <<btn_simulate, placeholders, lbl_reqs, queue_label,
                 total_seek_var, avg_seek_var, gantt_canvas>>

appvars == <<fieldvars, inputvars, displayvars, timers, last>>

vars == <<schedvars, appvars>>

\* ------------------------------------------------------------------------
\* Helpers
\* ------------------------------------------------------------------------
abs(x) == IF x < 0 THEN -x ELSE x

\* float("inf") of line 54, and None of line 53
Inf == -1
NoIdx == 0

RECURSIVE InsertSorted(_, _)
InsertSorted(x, s) ==
    IF s = <<>> THEN <<x>>
    ELSE IF x < Head(s) THEN <<x>> \o s
    ELSE <<Head(s)>> \o InsertSorted(x, Tail(s))

\* Python's sorted(): ascending, duplicates kept
RECURSIVE sorted(_)
sorted(s) == IF s = <<>> THEN <<>> ELSE InsertSorted(Head(s), sorted(Tail(s)))

\* ------------------------------------------------------------------------
\* sstf (lines 43-65)
\* ------------------------------------------------------------------------
\* mutants of LessDist: a later request at the same distance wins; the
\* farthest request wins
LessDistLE(d, min_dist) == min_dist = Inf \/ d <= min_dist
LessDistFar(d, min_dist) == min_dist = Inf \/ d > min_dist

\* the comparison of line 58, with min_dist possibly still float("inf")
LessDist(d, min_dist) == min_dist = Inf \/ d < min_dist

\* the inner loop of lines 55-60, from index i on; acc = [min_dist, nearest_idx]
RECURSIVE NearestScan(_, _, _, _, _)
NearestScan(reqs, visited, cur, i, acc) ==
    IF i > Len(reqs) THEN acc
    ELSE LET d == abs(cur - reqs[i])
             take == ~visited[i] /\ LessDist(d, acc.min_dist)
         IN NearestScan(reqs, visited, cur, i + 1,
                IF take THEN [min_dist |-> d, nearest_idx |-> i] ELSE acc)

\* a mutant of SstfIter: the step cost is measured from the original head
SstfIterFromHead(reqs, head, st) ==
    LET n == NearestScan(reqs, st.visited, st.cur, 1,
                         [min_dist |-> Inf, nearest_idx |-> NoIdx])
    IN [seq     |-> Append(st.seq, reqs[n.nearest_idx]),
        total   |-> st.total + abs(head - reqs[n.nearest_idx]),
        visited |-> [st.visited EXCEPT ![n.nearest_idx] = TRUE],
        cur     |-> reqs[n.nearest_idx]]

\* one iteration of the outer loop, lines 52-64
SstfIter(reqs, head, st) ==
    LET n == NearestScan(reqs, st.visited, st.cur, 1,
                         [min_dist |-> Inf, nearest_idx |-> NoIdx])
    IN [seq     |-> Append(st.seq, reqs[n.nearest_idx]),
        total   |-> st.total + n.min_dist,
        visited |-> [st.visited EXCEPT ![n.nearest_idx] = TRUE],
        cur     |-> reqs[n.nearest_idx]]

\* the locals before the outer loop, lines 46-51
SstfEntry(requests_list, head) ==
    [seq     |-> <<>>,
     total   |-> 0,
     visited |-> [i \in 1..Len(requests_list) |-> FALSE],
     cur     |-> head]

RECURSIVE SstfLoop(_, _, _, _)
SstfLoop(reqs, head, st, k) ==
    IF k = 0 THEN st ELSE SstfLoop(reqs, head, SstfIter(reqs, head, st), k - 1)

sstf(requests_list, head) ==
    IF requests_list = <<>> THEN [seq |-> <<>>, total |-> 0]
    ELSE LET st == SstfLoop(requests_list, head,
                            SstfEntry(requests_list, head), Len(requests_list))
         IN [seq |-> st.seq, total |-> st.total]

\* ------------------------------------------------------------------------
\* cscan (lines 67-96)
\* ------------------------------------------------------------------------
\* a mutant of CscanLeft: the requests below head keep their list order
CscanLeftUnsorted(requests_list, head) ==
    SelectSeq(requests_list, LAMBDA r : r < head)

\* a mutant of CscanRight: a request at the head itself is dropped
CscanRightStrict(requests_list, head) ==
    sorted(SelectSeq(requests_list, LAMBDA r : r > head))

\* lines 73-74
CscanLeft(requests_list, head) ==
    sorted(SelectSeq(requests_list, LAMBDA r : r < head))
CscanRight(requests_list, head) ==
    sorted(SelectSeq(requests_list, LAMBDA r : r >= head))

\* the service loops of lines 76-79 and 91-94; st = [seq, total, curr]
RECURSIVE CscanService(_, _)
CscanService(rs, st) ==
    IF rs = <<>> THEN st
    ELSE CscanService(Tail(rs),
            [seq   |-> Append(st.seq, Head(rs)),
             total |-> st.total + abs(st.curr - Head(rs)),
             curr  |-> Head(rs)])

\* a mutant of CscanMoveToEnd: no sweep when nothing was serviced on the right
CscanMoveToEndIfServiced(st, disk_size) ==
    IF st.seq # <<>> /\ st.curr # disk_size - 1
    THEN [st EXCEPT !.total = st.total + abs((disk_size - 1) - st.curr),
                    !.curr = disk_size - 1]
    ELSE st

\* lines 81-84
CscanMoveToEnd(st, disk_size) ==
    IF st.curr # disk_size - 1
    THEN [st EXCEPT !.total = st.total + abs((disk_size - 1) - st.curr),
                    !.curr = disk_size - 1]
    ELSE st

\* a mutant of CscanJump: the jump is charged the full disk size
CscanJumpDiskSize(st, count_jump) ==
    [st EXCEPT !.total = IF count_jump THEN st.total + st.curr + 1 ELSE st.total,
               !.curr = 0]

\* lines 86-89
CscanJump(st, count_jump) ==
    [st EXCEPT !.total = IF count_jump THEN st.total + st.curr ELSE st.total,
               !.curr = 0]

\* a mutant of cscan: the empty-list guard of lines 68-69 is missing
cscanNoGuard(requests_list, head, disk_size, count_jump) ==
    LET s0 == [seq |-> <<>>, total |-> 0, curr |-> head]
        s1 == CscanService(CscanRight(requests_list, head), s0)
        s2 == CscanMoveToEnd(s1, disk_size)
        s3 == CscanJump(s2, count_jump)
        s4 == CscanService(CscanLeft(requests_list, head), s3)
    IN [seq |-> s4.seq, total |-> s4.total]

cscan(requests_list, head, disk_size, count_jump) ==
    IF requests_list = <<>> THEN [seq |-> <<>>, total |-> 0]
    ELSE LET s0 == [seq |-> <<>>, total |-> 0, curr |-> head]
             s1 == CscanService(CscanRight(requests_list, head), s0)
             s2 == CscanMoveToEnd(s1, disk_size)
             s3 == CscanJump(s2, count_jump)
             s4 == CscanService(CscanLeft(requests_list, head), s3)
         IN [seq |-> s4.seq, total |-> s4.total]

\* ------------------------------------------------------------------------
\* generate_data's request lists (lines 308-313)
\* ------------------------------------------------------------------------
\* reqs is a value generate_data may assign for n requests on disk_size cylinders
CanGenerate(reqs, n, disk_size) ==
    /\ Len(reqs) = n
    /\ \A i \in DOMAIN reqs : 0 <= reqs[i] /\ reqs[i] < disk_size
    /\ n <= disk_size => \A i, j \in DOMAIN reqs : i < j => reqs[i] < reqs[j]

\* ------------------------------------------------------------------------
\* The per-move rows of simulate (lines 372-393)
\* ------------------------------------------------------------------------
\* ms_per_cyl is held in tenths of a millisecond, so latency is too
RECURSIVE MoveRowsFrom(_, _, _, _, _)
MoveRowsFrom(seq, ms_per_cyl, i, curr, cumulative) ==
    IF i > Len(seq) THEN <<>>
    ELSE LET pos == seq[i]
             dist == abs(curr - pos)
         IN <<[move       |-> i,
               cyl        |-> pos,
               dist       |-> dist,
               latency    |-> dist * ms_per_cyl,
               cumulative |-> cumulative + dist]>>
            \o MoveRowsFrom(seq, ms_per_cyl, i + 1, pos, cumulative + dist)

MoveRows(seq, head, ms_per_cyl) == MoveRowsFrom(seq, ms_per_cyl, 1, head, 0)

\* ------------------------------------------------------------------------
\* DiskSchedulerApp: widget texts and their conversions
\* ------------------------------------------------------------------------
\* the text of an entry: a numeral, or text no conversion accepts
Num(v) == [num |-> TRUE, val |-> v]
Garbage == [num |-> FALSE, val |-> 0]

\* defaults set by build_controls and restored by reset_all;
\* ms/cylinder is held in tenths of a millisecond ("0.5" is 5)
DefaultNum == 8
DefaultDisk == 200
DefaultHead == 50
DefaultMs == 5
\* line 410, and the placeholder rows of line 324
FallbackDisk == 200
MinPlaceholders == 10

\* the texts the user types or picks
DiskTexts == {Num(DefaultDisk), Num(3), Num(1)}
HeadTexts == {Num(DefaultHead), Num(1)}
AlgoTexts == {"SSTF", "C-SCAN"}

\* outcomes of random.sample / random.randrange the model draws from
RandomDraws ==
    {<<14, 37, 65, 67, 98, 122, 124, 183>>,
     <<2, 0, 1, 1, 0, 2, 2, 0>>}

NoLast == [dialog |-> "", parsed |-> FALSE, head |-> 0, disk_size |-> 0,
           planned |-> FALSE]

\* __init__ (lines 108-121) with the widgets as built
AppInit ==
    /\ requests = <<>>
    /\ seek_sequence = <<>>
    /\ total_seek = 0
    /\ animation_index = 0
    /\ head_position = 0
    /\ scale_px = 0
    /\ table_rows = <<>>
    /\ combo_num = Num(DefaultNum)
    /\ entry_disk = Num(DefaultDisk)
    /\ entry_head = Num(DefaultHead)
    /\ entry_ms = Num(DefaultMs)
    /\ combo_algo = "SSTF"
    /\ count_jump_var = 1
    /\ btn_simulate = "disabled"
    /\ placeholders = 0
    /\ lbl_reqs = <<>>
    /\ queue_label = <<>>
    /\ total_seek_var = 0
    /\ avg_seek_var = <<0, 1>>
    /\ gantt_canvas = <<>>
    /\ timers = 0
    /\ last = NoLast

\* ------------------------------------------------------------------------
\* DiskSchedulerApp: the user edits the input widgets
\* ------------------------------------------------------------------------
EditDisk ==
    /\ \E t \in DiskTexts : t # entry_disk /\ entry_disk' = t
    /\ UNCHANGED <<schedvars, fieldvars, displayvars, timers, last,
                   combo_num, entry_head, entry_ms, combo_algo, count_jump_var>>

EditHead ==
    /\ \E t \in HeadTexts : t # entry_head /\ entry_head' = t
    /\ UNCHANGED <<schedvars, fieldvars, displayvars, timers, last,
                   combo_num, entry_disk, entry_ms, combo_algo, count_jump_var>>

SelectAlgo ==
    /\ \E a \in AlgoTexts : a # combo_algo /\ combo_algo' = a
    /\ UNCHANGED <<schedvars, fieldvars, displayvars, timers, last,
                   combo_num, entry_disk, entry_head, entry_ms, count_jump_var>>

ToggleJump ==
    /\ count_jump_var' = 1 - count_jump_var
    /\ UNCHANGED <<schedvars, fieldvars, displayvars, timers, last,
                   combo_num, entry_disk, entry_head, entry_ms, combo_algo>>

\* ------------------------------------------------------------------------
\* generate_data (lines 296-329)
\* ------------------------------------------------------------------------
GenerateValid == combo_num.num /\ entry_disk.num
                 /\ ~(combo_num.val <= 0 \/ entry_disk.val <= 1)

\* generate_data whose error path also drops the request list
GenerateClearsOnError ==
    /\ table_rows' = <<>>
    /\ IF ~GenerateValid
       THEN /\ placeholders' = 0
            /\ requests' = <<>> /\ lbl_reqs' = <<>> /\ UNCHANGED btn_simulate
       ELSE LET n == combo_num.val
                disk_size == entry_disk.val
            IN /\ \E reqs \in RandomDraws :
                     /\ CanGenerate(reqs, n, disk_size)
                     /\ requests' = reqs
                     /\ lbl_reqs' = reqs
               /\ btn_simulate' = "normal"
               /\ placeholders' = IF n > MinPlaceholders THEN n ELSE MinPlaceholders
    /\ UNCHANGED <<schedvars, inputvars, timers, last, seek_sequence, total_seek,
                   animation_index, head_position, scale_px, queue_label,
                   total_seek_var, avg_seek_var, gantt_canvas>>

Generate ==
    /\ table_rows' = <<>>
    /\ IF ~GenerateValid
       THEN /\ placeholders' = 0
            /\ UNCHANGED <<requests, lbl_reqs, btn_simulate>>
       ELSE LET n == combo_num.val
                disk_size == entry_disk.val
            IN /\ \E reqs \in RandomDraws :
                     /\ CanGenerate(reqs, n, disk_size)
                     /\ requests' = reqs
                     /\ lbl_reqs' = reqs
               /\ btn_simulate' = "normal"
               /\ placeholders' = IF n > MinPlaceholders THEN n ELSE MinPlaceholders
    /\ UNCHANGED <<schedvars, inputvars, timers, last, seek_sequence, total_seek,
                   animation_index, head_position, scale_px, queue_label,
                   total_seek_var, avg_seek_var, gantt_canvas>>

\* ------------------------------------------------------------------------
\* simulate (lines 342-419), _draw_head_marker (lines 447-453)
\* ------------------------------------------------------------------------
\* canvas items; x coordinates are cylinder * canvas_w / scale_px
Baseline == [kind |-> "baseline", from |-> 0, to |-> 0, per |-> 0]
HeadMarker(head_pos, final, per) ==
    <<[kind |-> IF final THEN "final" ELSE "head", from |-> head_pos, to |-> head_pos, per |-> per],
      [kind |-> "text", from |-> head_pos, to |-> head_pos, per |-> per]>>
MoveLine(from, to, per) == [kind |-> "line", from |-> from, to |-> to, per |-> per]
ArrivalDot(at, per) == [kind |-> "dot", from |-> at, to |-> at, per |-> per]

\* an early return of simulate after a message box: only the table was cleared
SimulateReturns(title, parsed, head, disk_size) ==
    /\ last' = [dialog |-> title, parsed |-> parsed, head |-> head,
                disk_size |-> disk_size, planned |-> FALSE]
    /\ UNCHANGED <<requests, seek_sequence, total_seek, animation_index,
                   head_position, scale_px, queue_label, total_seek_var,
                   avg_seek_var, gantt_canvas, timers>>

\* lines 357-419 without line 405: the replay index of the earlier run is kept
SimulateRunsResumes(head, disk_size, ms_per_cyl) ==
    LET count_jump == count_jump_var # 0
        plan == IF combo_algo = "SSTF" THEN sstf(requests, head)
                ELSE cscan(requests, head, disk_size, count_jump)
        per == IF disk_size <= 0 THEN FallbackDisk ELSE disk_size
    IN /\ seek_sequence' = plan.seq
       /\ total_seek' = plan.total
       /\ table_rows' = MoveRows(plan.seq, head, ms_per_cyl)
       /\ total_seek_var' = plan.total
       /\ avg_seek_var' = IF requests # <<>> THEN <<plan.total, Len(requests)>>
                          ELSE <<0, 1>>
       /\ queue_label' = plan.seq
       /\ animation_index' = animation_index
       /\ head_position' = head
       /\ scale_px' = per
       /\ gantt_canvas' = <<Baseline>> \o HeadMarker(head, FALSE, per)
       /\ timers' = timers + 1
       /\ last' = [dialog |-> "", parsed |-> TRUE, head |-> head,
                   disk_size |-> disk_size, planned |-> TRUE]
       /\ UNCHANGED requests

\* lines 357-419
SimulateRuns(head, disk_size, ms_per_cyl) ==
    LET count_jump == count_jump_var # 0
        plan == IF combo_algo = "SSTF" THEN sstf(requests, head)
                ELSE cscan(requests, head, disk_size, count_jump)
        per == IF disk_size <= 0 THEN FallbackDisk ELSE disk_size
    IN /\ seek_sequence' = plan.seq
       /\ total_seek' = plan.total
       /\ table_rows' = MoveRows(plan.seq, head, ms_per_cyl)
       /\ total_seek_var' = plan.total
       /\ avg_seek_var' = IF requests # <<>> THEN <<plan.total, Len(requests)>>
                          ELSE <<0, 1>>
       /\ queue_label' = plan.seq
       /\ animation_index' = 0
       /\ head_position' = head
       /\ scale_px' = per
       /\ gantt_canvas' = <<Baseline>> \o HeadMarker(head, FALSE, per)
       /\ timers' = timers + 1
       /\ last' = [dialog |-> "", parsed |-> TRUE, head |-> head,
                   disk_size |-> disk_size, planned |-> TRUE]
       /\ UNCHANGED requests

Simulate ==
    /\ btn_simulate = "normal"
    /\ timers < MaxTimers
    /\ placeholders' = 0
    /\ IF requests = <<>>
       THEN table_rows' = <<>> /\ SimulateReturns("No requests", FALSE, 0, 0)
       ELSE IF ~(entry_head.num /\ entry_disk.num /\ entry_ms.num)
       THEN table_rows' = <<>> /\ SimulateReturns("Input Error", FALSE, 0, 0)
       ELSE IF combo_algo \notin {"SSTF", "C-SCAN"}
       THEN table_rows' = <<>>
            /\ SimulateReturns("Algorithm", TRUE, entry_head.val, entry_disk.val)
       ELSE SimulateRuns(entry_head.val, entry_disk.val, entry_ms.val)
    /\ UNCHANGED <<schedvars, inputvars, btn_simulate, lbl_reqs>>

\* ------------------------------------------------------------------------
\* animate_seek_step (lines 424-445), run when a timer fires
\* ------------------------------------------------------------------------
\* animate_seek_step whose line 442 advances the index by two
AnimateSeekStepSkips ==
    /\ timers > 0
    /\ IF animation_index >= Len(seek_sequence)
       THEN /\ gantt_canvas' = gantt_canvas \o HeadMarker(head_position, TRUE, scale_px)
            /\ timers' = timers - 1
            /\ UNCHANGED <<head_position, animation_index>>
       ELSE LET next_pos == seek_sequence[animation_index + 1]
            IN /\ gantt_canvas' = gantt_canvas \o
                      <<MoveLine(head_position, next_pos, scale_px),
                        ArrivalDot(next_pos, scale_px)>>
               /\ head_position' = next_pos
               /\ animation_index' = animation_index + 2
               /\ timers' = timers
    /\ UNCHANGED <<schedvars, inputvars, requests, seek_sequence, total_seek,
                   scale_px, table_rows, btn_simulate, placeholders, lbl_reqs,
                   queue_label, total_seek_var, avg_seek_var, last>>

\* animate_seek_step without line 441: the head position is not updated
AnimateSeekStepStale ==
    /\ timers > 0
    /\ IF animation_index >= Len(seek_sequence)
       THEN /\ gantt_canvas' = gantt_canvas \o HeadMarker(head_position, TRUE, scale_px)
            /\ timers' = timers - 1
            /\ UNCHANGED <<head_position, animation_index>>
       ELSE LET next_pos == seek_sequence[animation_index + 1]
            IN /\ gantt_canvas' = gantt_canvas \o
                      <<MoveLine(head_position, next_pos, scale_px),
                        ArrivalDot(next_pos, scale_px)>>
               /\ head_position' = head_position
               /\ animation_index' = animation_index + 1
               /\ timers' = timers
    /\ UNCHANGED <<schedvars, inputvars, requests, seek_sequence, total_seek,
                   scale_px, table_rows, btn_simulate, placeholders, lbl_reqs,
                   queue_label, total_seek_var, avg_seek_var, last>>

AnimateSeekStep ==
    /\ timers > 0
    /\ IF animation_index >= Len(seek_sequence)
       THEN /\ gantt_canvas' = gantt_canvas \o HeadMarker(head_position, TRUE, scale_px)
            /\ timers' = timers - 1
            /\ UNCHANGED <<head_position, animation_index>>
       ELSE LET next_pos == seek_sequence[animation_index + 1]
            IN /\ gantt_canvas' = gantt_canvas \o
                      <<MoveLine(head_position, next_pos, scale_px),
                        ArrivalDot(next_pos, scale_px)>>
               /\ head_position' = next_pos
               /\ animation_index' = animation_index + 1
               /\ timers' = timers
    /\ UNCHANGED <<schedvars, inputvars, requests, seek_sequence, total_seek,
                   scale_px, table_rows, btn_simulate, placeholders, lbl_reqs,
                   queue_label, total_seek_var, avg_seek_var, last>>

\* ------------------------------------------------------------------------
\* reset_all (lines 458-477)
\* ------------------------------------------------------------------------
\* reset_all without line 460: the planned sequence survives
ResetKeepsSequence ==
    /\ requests' = <<>>
    /\ seek_sequence' = seek_sequence
    /\ total_seek' = 0
    /\ animation_index' = 0
    /\ head_position' = 0
    /\ lbl_reqs' = <<>>
    /\ table_rows' = <<>>
    /\ placeholders' = 0
    /\ gantt_canvas' = <<>>
    /\ total_seek_var' = 0
    /\ avg_seek_var' = <<0, 1>>
    /\ queue_label' = <<>>
    /\ combo_num' = Num(DefaultNum)
    /\ entry_disk' = Num(DefaultDisk)
    /\ entry_head' = Num(DefaultHead)
    /\ entry_ms' = Num(DefaultMs)
    /\ btn_simulate' = "disabled"
    /\ UNCHANGED <<schedvars, scale_px, combo_algo, count_jump_var, timers, last>>

Reset ==
    /\ requests' = <<>>
    /\ seek_sequence' = <<>>
    /\ total_seek' = 0
    /\ animation_index' = 0
    /\ head_position' = 0
    /\ lbl_reqs' = <<>>
    /\ table_rows' = <<>>
    /\ placeholders' = 0
    /\ gantt_canvas' = <<>>
    /\ total_seek_var' = 0
    /\ avg_seek_var' = <<0, 1>>
    /\ queue_label' = <<>>
    /\ combo_num' = Num(DefaultNum)
    /\ entry_disk' = Num(DefaultDisk)
    /\ entry_head' = Num(DefaultHead)
    /\ entry_ms' = Num(DefaultMs)
    /\ btn_simulate' = "disabled"
    /\ UNCHANGED <<schedvars, scale_px, combo_algo, count_jump_var, timers, last>>

NoCall == [fn |-> "none", requests_list |-> <<>>, head |-> 0, disk_size |-> 0,
           count_jump |-> FALSE]
NoFrame == [seq |-> <<>>, total |-> 0, visited |-> <<>>, cur |-> 0]
NoRet == [seq |-> <<>>, total |-> 0]

Init ==
    /\ AppInit
    /\ call = NoCall
    /\ frame = NoFrame
    /\ pc = "ready"
    /\ ret = NoRet

Next ==
    \/ EditDisk
    \/ EditHead
    \/ SelectAlgo
    \/ ToggleJump
    \/ Generate
    \/ Simulate
    \/ AnimateSeekStep
    \/ Reset

Spec == Init /\ [][Next]_vars

\* ------------------------------------------------------------------------
\* An undisturbed replay: the user acts only while no replay has begun to
\* move the head (no callback is pending, or the first callback of the
\* pending replay has not run yet); from the first head movement to the end
\* of the replay only the timers fire.  The Tk main loop runs every pending
\* `after` callback (lines 419, 445), hence the weak fairness.
\* ------------------------------------------------------------------------
UserQuiet == timers > 0 /\ animation_index > 0

ReplayNext ==
    \/ AnimateSeekStep
    \/ (~UserQuiet /\ EditDisk)
    \/ (~UserQuiet /\ EditHead)
    \/ (~UserQuiet /\ SelectAlgo)
    \/ (~UserQuiet /\ ToggleJump)
    \/ (~UserQuiet /\ Generate)
    \/ (~UserQuiet /\ Simulate)
    \/ (~UserQuiet /\ Reset)

ReplaySpec == Init /\ [][ReplayNext]_vars /\ WF_vars(AnimateSeekStep)

\* ------------------------------------------------------------------------
\* The scheduling-function specification
\* ------------------------------------------------------------------------
Cylinders == 0..MaxCyl
RequestLists == UNION {[1..n -> Cylinders] : n \in 0..MaxLen}
Heads == (0 - 1)..(MaxCyl + 1)
DiskSizes == 0..(MaxCyl + 1)

\* the arguments of the worked examples: eight requests on a 200-cylinder disk
ExampleRequests == <<98, 183, 37, 122, 14, 124, 65, 67>>
ExampleCalls ==
    [fn            : {"sstf", "cscan"},
     requests_list : {ExampleRequests},
     head          : {53},
     disk_size     : {200},
     count_jump    : BOOLEAN]

SchedInit ==
    /\ AppInit
    /\ call \in [fn            : {"sstf", "cscan"},
                 requests_list : RequestLists,
                 head          : Heads,
                 disk_size     : DiskSizes,
                 count_jump    : BOOLEAN] \cup ExampleCalls
    /\ frame = NoFrame
    /\ pc = "ready"
    /\ ret = NoRet

\* sstf is entered; an empty list returns at once (lines 44-45)
SstfCall ==
    /\ pc = "ready"
    /\ call.fn = "sstf"
    /\ IF call.requests_list = <<>>
       THEN /\ pc' = "done"
            /\ ret' = [seq |-> <<>>, total |-> 0]
            /\ UNCHANGED frame
       ELSE /\ pc' = "sstf"
            /\ frame' = SstfEntry(call.requests_list, call.head)
            /\ UNCHANGED ret
    /\ UNCHANGED <<call, appvars>>

\* one iteration of the outer loop of sstf
SstfStep ==
    /\ pc = "sstf"
    /\ Len(frame.seq) < Len(call.requests_list)
    /\ frame' = SstfIter(call.requests_list, call.head, frame)
    /\ UNCHANGED <<call, pc, ret, appvars>>

\* line 65
SstfReturn ==
    /\ pc = "sstf"
    /\ Len(frame.seq) = Len(call.requests_list)
    /\ pc' = "done"
    /\ ret' = [seq |-> frame.seq, total |-> frame.total]
    /\ UNCHANGED <<call, frame, appvars>>

\* cscan runs from entry to return
CscanCall ==
    /\ pc = "ready"
    /\ call.fn = "cscan"
    /\ pc' = "done"
    /\ ret' = cscan(call.requests_list, call.head, call.disk_size, call.count_jump)
    /\ UNCHANGED <<call, frame, appvars>>

SchedNext == SstfCall \/ SstfStep \/ SstfReturn \/ CscanCall

SchedSpec == SchedInit /\ [][SchedNext]_vars

\* ------------------------------------------------------------------------
\* Vocabulary of the properties
\* ------------------------------------------------------------------------
Count(s, x) == Cardinality({i \in DOMAIN s : s[i] = x})
Elems(s) == {s[i] : i \in DOMAIN s}
SameMultiset(s, t) == \A x \in Elems(s) \cup Elems(t) : Count(s, x) = Count(t, x)
HasDuplicate(s) == \E i, j \in DOMAIN s : i < j /\ s[i] = s[j]
StrictlyAscending(s) == \A i, j \in DOMAIN s : i < j => s[i] < s[j]
Ascending(s) == \A i, j \in DOMAIN s : i < j => s[i] <= s[j]
SetMax(S) == CHOOSE m \in S : \A x \in S : x <= m

RECURSIVE PathSum(_, _)
PathSum(from, s) ==
    IF s = <<>> THEN 0 ELSE abs(from - Head(s)) + PathSum(Head(s), Tail(s))

Returned(fn) == pc = "done" /\ call.fn = fn
InRange(x, disk_size) == 0 <= x /\ x <= disk_size - 1
ArgsInRange ==
    /\ InRange(call.head, call.disk_size)
    /\ \A i \in DOMAIN call.requests_list :
           InRange(call.requests_list[i], call.disk_size)
BelowArgs == {x \in Elems(call.requests_list) : x < call.head}
AtOrAboveArgs == {x \in Elems(call.requests_list) : x >= call.head}

\* the indices an sstf step marks visited
NewlyVisited == {i \in DOMAIN frame.visited : frame'.visited[i] /\ ~frame.visited[i]}
SstfStepped == pc = "sstf" /\ frame' # frame
\* the position the head was at before the latest selection of sstf
PrevCur == IF Len(frame.seq) = 1 THEN call.head ELSE frame.seq[Len(frame.seq) - 1]

\* ------------------------------------------------------------------------
\* C1 - permutation invariant
\* ------------------------------------------------------------------------
\* C1: whatever the request list (duplicates included) and the head, the
\* visit order sstf returns and the visit order cscan returns have the
\* length of the request list and hold every cylinder as often as it does.
C1_Permutation ==
    pc = "done" =>
        /\ Len(ret.seq) = Len(call.requests_list)
        /\ SameMultiset(ret.seq, call.requests_list)

C1_Witness ==
    /\ pc = "done"
    /\ call.fn = "cscan"
    /\ HasDuplicate(call.requests_list)
    /\ call.head \in Elems(call.requests_list)
    /\ BelowArgs # {}
    /\ ret.seq # call.requests_list

\* ------------------------------------------------------------------------
\* C2 - SSTF tie-break
\* ------------------------------------------------------------------------
\* C2: at every selection step of sstf, no unvisited request at the same
\* distance from the current position as the selected one has a smaller
\* index in the request list.
C2_SstfTieBreak ==
    [][SstfStepped =>
          /\ NewlyVisited # {}
          /\ \A k \in NewlyVisited :
               \A j \in DOMAIN frame.visited :
                  (/\ ~frame.visited[j]
                   /\ abs(frame.cur - call.requests_list[j])
                        = abs(frame.cur - call.requests_list[k])) => k <= j]_vars

\* a selection was made among two different cylinders at the same distance,
\* the later one in list order being the lower cylinder
C2_Witness ==
    /\ pc = "sstf"
    /\ Len(frame.seq) >= 1
    /\ \E j \in DOMAIN frame.visited :
          /\ ~frame.visited[j]
          /\ call.requests_list[j] # frame.cur
          /\ abs(PrevCur - call.requests_list[j]) = abs(PrevCur - frame.cur)
          /\ call.requests_list[j] < frame.cur

\* ------------------------------------------------------------------------
\* C3 - SSTF greedy selection
\* ------------------------------------------------------------------------
\* C3: every step of sstf starts from the head (step 1) or the cylinder
\* serviced last, marks exactly one unvisited request, appends its cylinder
\* to the visit order, and no unvisited request was nearer.
C3_SstfGreedy ==
    [][SstfStepped =>
          /\ frame.cur = IF frame.seq = <<>> THEN call.head
                         ELSE frame.seq[Len(frame.seq)]
          /\ Cardinality(NewlyVisited) = 1
          /\ \A i \in DOMAIN frame.visited : frame.visited[i] => frame'.visited[i]
          /\ \A k \in NewlyVisited :
               /\ frame'.seq = Append(frame.seq, call.requests_list[k])
               /\ \A j \in DOMAIN frame.visited :
                     ~frame.visited[j] =>
                         abs(frame.cur - call.requests_list[k])
                           <= abs(frame.cur - call.requests_list[j])]_vars

\* a second step was taken while a farther request was left waiting
C3_Witness ==
    /\ pc = "sstf"
    /\ Len(frame.seq) = 2
    /\ \E j \in DOMAIN frame.visited :
          /\ ~frame.visited[j]
          /\ abs(PrevCur - call.requests_list[j]) > abs(PrevCur - frame.cur)

\* ------------------------------------------------------------------------
\* C4 - SSTF total is the path sum
\* ------------------------------------------------------------------------
\* C4: the total sstf returns is the sum of the absolute differences along
\* head -> seq[1] -> seq[2] -> ..., which is the Cumulative Seek of the last
\* per-move row simulate builds for that plan.
C4_SstfTotalIsPathSum ==
    Returned("sstf") =>
        /\ ret.total = PathSum(call.head, ret.seq)
        /\ LET rows == MoveRows(ret.seq, call.head, 1)
           IN /\ Len(rows) = Len(ret.seq)
              /\ rows # <<>> => rows[Len(rows)].cumulative = ret.total

C4_Witness ==
    /\ Returned("sstf")
    /\ Len(ret.seq) = MaxLen
    /\ ret.total > abs(call.head - ret.seq[1])
    /\ ret.seq[2] < ret.seq[1]
    /\ ret.seq[3] > ret.seq[2]

\* ------------------------------------------------------------------------
\* C5 - C-SCAN jump-cost flag
\* ------------------------------------------------------------------------
CscanTotalWith(count_jump) ==
    cscan(call.requests_list, call.head, call.disk_size, count_jump).total

\* C5 as stated: with a request below head the uncounted total is the
\* counted one minus (diskSize - 1), and with none below head the flag makes
\* no difference.
C5_AsStated ==
    (Returned("cscan") /\ call.requests_list # <<>> /\ ArgsInRange) =>
        IF BelowArgs # {}
        THEN CscanTotalWith(FALSE) = CscanTotalWith(TRUE) - (call.disk_size - 1)
        ELSE CscanTotalWith(FALSE) = CscanTotalWith(TRUE)

\* C5 (amended): for every non-empty request list with head and all requests
\* in [0, diskSize-1], the total without the jump cost is the total with it
\* minus (diskSize - 1), whether or not a request lies below head.
C5_JumpFlag ==
    (Returned("cscan") /\ call.requests_list # <<>> /\ ArgsInRange) =>
        /\ ret.total = CscanTotalWith(call.count_jump)
        /\ IF call.count_jump
           THEN CscanTotalWith(FALSE) = ret.total - (call.disk_size - 1)
           ELSE ret.total = CscanTotalWith(TRUE) - (call.disk_size - 1)

\* the flag is set, nothing lies below head, and the jump was charged
C5_Witness ==
    /\ Returned("cscan")
    /\ call.requests_list # <<>>
    /\ ArgsInRange
    /\ BelowArgs = {}
    /\ call.count_jump
    /\ call.disk_size > 1
    /\ ret.total > CscanTotalWith(FALSE)

\* ------------------------------------------------------------------------
\* C6 - C-SCAN monotonicity
\* ------------------------------------------------------------------------
SeqAtOrAbove == SelectSeq(ret.seq, LAMBDA r : r >= call.head)
SeqBelow == SelectSeq(ret.seq, LAMBDA r : r < call.head)
RightBeforeLeft ==
    \A i, j \in DOMAIN ret.seq :
        (ret.seq[i] >= call.head /\ ret.seq[j] < call.head) => i < j

\* C6 as stated: for a list generate_data can produce, the cylinders >= head
\* are visited in strictly ascending order, those < head too, and the former
\* all come first.
C6_AsStated ==
    (/\ Returned("cscan")
     /\ call.requests_list # <<>>
     /\ call.disk_size > 1
     /\ CanGenerate(call.requests_list, Len(call.requests_list), call.disk_size)) =>
        /\ StrictlyAscending(SeqAtOrAbove)
        /\ StrictlyAscending(SeqBelow)
        /\ RightBeforeLeft

\* C6 (amended): in cscan's visit order the cylinders >= head are ascending
\* and the cylinders < head are ascending, strictly so when the request list
\* repeats no cylinder (equal cylinders are visited one right after the
\* other), and every cylinder >= head precedes every cylinder < head.
C6_Monotone ==
    Returned("cscan") =>
        /\ Ascending(SeqAtOrAbove)
        /\ Ascending(SeqBelow)
        /\ RightBeforeLeft
        /\ ~HasDuplicate(call.requests_list) =>
              /\ StrictlyAscending(SeqAtOrAbove)
              /\ StrictlyAscending(SeqBelow)

\* a generated list with more requests than cylinders, reordered by the wrap
C6_Witness ==
    /\ Returned("cscan")
    /\ call.disk_size > 1
    /\ Len(call.requests_list) > call.disk_size
    /\ CanGenerate(call.requests_list, Len(call.requests_list), call.disk_size)
    /\ InRange(call.head, call.disk_size)
    /\ HasDuplicate(SeqBelow)
    /\ SeqAtOrAbove # <<>>
    /\ call.requests_list # ret.seq

\* ------------------------------------------------------------------------
\* C7 - empty request set
\* ------------------------------------------------------------------------
\* C7: called with an empty request list, sstf and cscan return the empty
\* visit order and total 0, whatever the head, the disk size and count_jump.
C7_EmptyPlan ==
    (pc = "done" /\ call.requests_list = <<>>) =>
        /\ ret.seq = <<>>
        /\ ret.total = 0

\* cscan returned for an empty list where a sweep and a jump would cost
C7_Witness ==
    /\ Returned("cscan")
    /\ call.requests_list = <<>>
    /\ call.count_jump
    /\ call.disk_size > 1
    /\ InRange(call.head, call.disk_size)
    /\ call.head # call.disk_size - 1

\* ------------------------------------------------------------------------
\* C8 - C-SCAN boundary sweep and total
\* ------------------------------------------------------------------------
\* C8: for a non-empty list with head and requests in [0, diskSize-1],
\* cscan's total is (diskSize-1 - head) + (diskSize-1 if count_jump) + (the
\* largest request below head, or 0); the boundary cylinder is in the visit
\* order exactly as often as it was requested.
C8_CscanTotal ==
    (Returned("cscan") /\ call.requests_list # <<>> /\ ArgsInRange) =>
        /\ ret.total = (call.disk_size - 1 - call.head)
                       + (IF call.count_jump THEN call.disk_size - 1 ELSE 0)
                       + (IF BelowArgs = {} THEN 0 ELSE SetMax(BelowArgs))
        /\ Count(ret.seq, call.disk_size - 1)
             = Count(call.requests_list, call.disk_size - 1)

\* nothing at or above head: the sweep to the boundary is still charged
C8_Witness ==
    /\ Returned("cscan")
    /\ call.requests_list # <<>>
    /\ ArgsInRange
    /\ AtOrAboveArgs = {}
    /\ call.head < call.disk_size - 1
    /\ ret.total >= call.disk_size - 1 - call.head
    /\ Count(ret.seq, call.disk_size - 1) = 0

\* ------------------------------------------------------------------------
\* C9 - HeadOutOfRange
\* ------------------------------------------------------------------------
\* C9: a run of simulate that read a head outside [0, diskSize-1] (on a
\* valid geometry) ends without a seek plan: it does not reach the
\* assignments of seek_sequence, total_seek, the rows and the animation.
C9_HeadOutOfRangeIsFatal ==
    (last.parsed /\ last.disk_size > 1 /\ ~InRange(last.head, last.disk_size)) =>
        /\ ~last.planned
        /\ last.dialog # ""

\* ------------------------------------------------------------------------
\* C10 - InvalidGeometry
\* ------------------------------------------------------------------------
\* C10: a run of simulate that read diskSize <= 1 ends without a seek plan,
\* also when the disk size was edited after the requests were generated.
C10_InvalidGeometryIsFatal ==
    (last.parsed /\ last.disk_size <= 1) =>
        /\ ~last.planned
        /\ last.dialog # ""

\* ------------------------------------------------------------------------
\* Vocabulary of the application properties
\* ------------------------------------------------------------------------
\* the step is a run of simulate that reached the scheduler and the plan:
\* only lines 368-419 add a timer callback
SimulatePlans == timers' = timers + 1
\* what simulate reads from the entries in the current state
HeadRead == entry_head.val
DiskRead == entry_disk.val

\* ------------------------------------------------------------------------
\* C11 - scheduling precondition
\* ------------------------------------------------------------------------
\* C11: whenever simulate invokes sstf or cscan, the request list is
\* non-empty and every request is in [0, diskSize-1] for the disk size that
\* invocation reads.
C11_SchedulingPrecondition ==
    [][SimulatePlans =>
          /\ requests # <<>>
          /\ \A i \in DOMAIN requests : InRange(requests[i], DiskRead)]_vars

\* ------------------------------------------------------------------------
\* C12 - example 1 (SSTF)
\* ------------------------------------------------------------------------
ExampleReturned(fn) ==
    /\ Returned(fn)
    /\ call.requests_list = ExampleRequests
    /\ call.head = 53
    /\ call.disk_size = 200

\* C12 as stated: on the example sstf visits 65 first, 12 cylinders away,
\* and returns a total seek of 640.
C12_AsStated ==
    ExampleReturned("sstf") =>
        /\ ret.seq[1] = 65
        /\ abs(call.head - ret.seq[1]) = 12
        /\ ret.total = 640

\* C12 (amended): on the example sstf visits 65 first, 12 cylinders away,
\* and returns a total seek of 236 (visit order 65, 67, 37, 14, 98, 122,
\* 124, 183).
C12_Example1 ==
    ExampleReturned("sstf") =>
        /\ ret.seq[1] = 65
        /\ abs(call.head - ret.seq[1]) = 12
        /\ ret.seq = <<65, 67, 37, 14, 98, 122, 124, 183>>
        /\ ret.total = 236

C12_Witness ==
    /\ ExampleReturned("sstf")
    /\ Len(ret.seq) = 8
    /\ ret.total > 0

\* ------------------------------------------------------------------------
\* C13 - example 2 (C-SCAN)
\* ------------------------------------------------------------------------
\* C13: on the example with the jump counted, cscan returns the visit order
\* 65, 67, 98, 122, 124, 183, 14, 37 and a total seek of 382.
C13_Example2 ==
    (ExampleReturned("cscan") /\ call.count_jump) =>
        /\ ret.seq = <<65, 67, 98, 122, 124, 183, 14, 37>>
        /\ ret.total = 382

C13_Witness ==
    /\ ExampleReturned("cscan")
    /\ call.count_jump
    /\ Len(ret.seq) = 8
    /\ ret.total > 199

\* ------------------------------------------------------------------------
\* C14 - the replay emits each entry once, in order, then terminates
\* ------------------------------------------------------------------------
\* the head movements drawn on the canvas, in drawing order
Lines(canvas) ==
    LET ls == SelectSeq(canvas, LAMBDA it : it.kind = "line")
    IN [i \in DOMAIN ls |-> <<ls[i].from, ls[i].to>>]
\* the movements of a head that starts at from and visits s in order
PathLines(from, s) ==
    [i \in DOMAIN s |-> <<IF i = 1 THEN from ELSE s[i - 1], s[i]>>]
FinalMarkers(canvas) == Len(SelectSeq(canvas, LAMBDA it : it.kind = "final"))

\* a callback moved the head / a callback ended its chain
HeadMoves == animation_index' > animation_index
ChainEnds == timers' < timers
ReplayDone == timers = 0 /\ animation_index = Len(seek_sequence)

\* C14: in an undisturbed replay every head movement goes to the next
\* entry of seek_sequence (index + 1, none skipped or repeated), the
\* movements drawn so far are exactly the path from the starting head through
\* the first animation_index entries, a chain ends only after the last entry
\* and leaves index and head where they are, and a replay the user leaves
\* alone eventually ends with all n entries emitted and no callback pending.
C14_ReplayInOrder ==
    /\ [][HeadMoves =>
             /\ animation_index' = animation_index + 1
             /\ animation_index' <= Len(seek_sequence)
             /\ head_position' = seek_sequence[animation_index']
             /\ timers' = timers]_vars
    /\ [][ChainEnds =>
             /\ animation_index = Len(seek_sequence)
             /\ timers' = timers - 1
             /\ UNCHANGED <<animation_index, head_position>>]_vars
    /\ [](Lines(gantt_canvas) =
             PathLines(last.head, SubSeq(seek_sequence, 1, animation_index)))
    /\ UserQuiet ~> ReplayDone

C14_Witness ==
    /\ ReplayDone
    /\ last.planned
    /\ Len(seek_sequence) >= 8
    /\ Lines(gantt_canvas) = PathLines(last.head, seek_sequence)
    /\ FinalMarkers(gantt_canvas) = 1

\* ------------------------------------------------------------------------
\* C15 - Done is terminal
\* ------------------------------------------------------------------------
\* animate_seek_step takes (or has taken) its done branch in this state
Finished == animation_index >= Len(seek_sequence)
NoNewLine == Len(Lines(gantt_canvas')) <= Len(Lines(gantt_canvas))

\* C15 as stated: from a state where the replay is done, every step that is
\* not a fresh Simulate emits no head movement and leaves head_position and
\* animation_index unchanged.
C15_AsStated ==
    [][(Finished /\ ~SimulatePlans) =>
          /\ ~HeadMoves
          /\ NoNewLine
          /\ UNCHANGED <<head_position, animation_index>>]_vars

\* C15 (amended): from a state where the replay is done, every step that is
\* not a fresh Simulate leaves the replay done and emits no head movement;
\* head_position and animation_index are unchanged, except that Reset sets
\* both to 0 together with an empty sequence and an empty canvas.
C15_DoneIsTerminal ==
    [][(Finished /\ ~SimulatePlans) =>
          /\ Finished'
          /\ ~HeadMoves
          /\ NoNewLine
          /\ \/ UNCHANGED <<head_position, animation_index>>
             \/ /\ head_position' = 0
                /\ animation_index' = 0
                /\ seek_sequence' = <<>>
                /\ gantt_canvas' = <<>>]_vars

\* done was observed for a real plan, the table was cleared by a later
\* Generate and a callback of an earlier Simulate is still pending
C15_Witness ==
    /\ Finished
    /\ animation_index > 0
    /\ FinalMarkers(gantt_canvas) >= 1
    /\ timers > 0
    /\ table_rows = <<>>

\* ------------------------------------------------------------------------
\* C16 - replay determinism and restartability
\* ------------------------------------------------------------------------
\* the plan and the per-move rows as functions of the six inputs alone
PlanOf(reqs, head, disk_size, algo, count_jump) ==
    IF algo = "SSTF" THEN sstf(reqs, head)
    ELSE cscan(reqs, head, disk_size, count_jump)
RowsOf(reqs, head, disk_size, ms_per_cyl, algo, count_jump) ==
    MoveRows(PlanOf(reqs, head, disk_size, algo, count_jump).seq, head, ms_per_cyl)
InputsPlan == PlanOf(requests, HeadRead, DiskRead, combo_algo, count_jump_var # 0)

\* C16: whatever state earlier simulations left (a finished replay, a replay
\* in progress, pending callbacks), a Simulate sets the seek sequence, the
\* total and the per-move rows to the values the six inputs determine and
\* restarts the replay at index 0 from the head read, on a canvas without
\* head movements; no other step alters the sequence or the total while a
\* plan is loaded; and in every state the movements drawn are the path from
\* the head read through the first animation_index entries of that sequence.
\* Two invocations with the same inputs therefore give the same sequence,
\* total, rows and drawn steps.
C16_Deterministic ==
    /\ [][SimulatePlans =>
             /\ seek_sequence' = InputsPlan.seq
             /\ total_seek' = InputsPlan.total
             /\ total_seek_var' = InputsPlan.total
             /\ table_rows' = RowsOf(requests, HeadRead, DiskRead, entry_ms.val,
                                     combo_algo, count_jump_var # 0)
             /\ animation_index' = 0
             /\ head_position' = HeadRead
             /\ Lines(gantt_canvas') = <<>>
             /\ last'.head = HeadRead]_vars
    /\ [][(~SimulatePlans /\ seek_sequence' # <<>>) =>
             /\ UNCHANGED <<seek_sequence, total_seek>>
             /\ table_rows' \in {table_rows, <<>>}]_vars
    /\ [](/\ Lines(gantt_canvas) =
                PathLines(last.head, SubSeq(seek_sequence, 1, animation_index))
          /\ animation_index <= Len(seek_sequence)
          /\ seek_sequence # <<>> =>
                head_position = IF animation_index = 0 THEN last.head
                                ELSE seek_sequence[animation_index])

\* a second Simulate was invoked while the replay of the first was in
\* progress, and its own replay is under way with both callbacks pending
C16_Witness ==
    /\ timers = 2
    /\ last.planned
    /\ animation_index > 0
    /\ animation_index < Len(seek_sequence)
    /\ Lines(gantt_canvas) =
          PathLines(last.head, SubSeq(seek_sequence, 1, animation_index))

\* ------------------------------------------------------------------------
\* C17 - single animation chain
\* ------------------------------------------------------------------------
\* C17: in every reachable state at most one animate_seek_step callback is
\* pending, and the canvas of a simulation carries at most one final head
\* marker.
C17_SingleChain ==
    /\ timers <= 1
    /\ FinalMarkers(gantt_canvas) <= 1

\* ------------------------------------------------------------------------
\* C18 - Reset cancels the replay
\* ------------------------------------------------------------------------
\* seek_sequence is empty exactly from construction or a Reset until the next
\* Simulate that plans (a plan of a non-empty request list is non-empty)
SinceReset == seek_sequence = <<>>

\* C18: from a Reset until the next Simulate nothing is drawn: the Gantt
\* canvas stays empty.
C18_ResetCancelsReplay == SinceReset => gantt_canvas = <<>>

\* ------------------------------------------------------------------------
\* C19 - Simulate is enabled exactly when there are requests
\* ------------------------------------------------------------------------
\* C19: in every reachable state the Simulate button is enabled if and only
\* if self.requests is non-empty; and while the inputs fail generate_data's
\* validation, a step that does not edit the inputs (a Generate in
\* particular) leaves self.requests, their label and the button unchanged.
C19_SimulateEnabledIffRequests ==
    /\ [](btn_simulate = "normal" <=> requests # <<>>)
    /\ [](btn_simulate \in {"normal", "disabled"})
    /\ [][(~GenerateValid /\ UNCHANGED inputvars) =>
             UNCHANGED <<requests, lbl_reqs, btn_simulate>>]_vars

\* a Generate failed validation after a simulation: the table was cleared
\* without placeholders, the requests and the enabled button are still there
C19_Witness ==
    /\ ~GenerateValid
    /\ requests # <<>>
    /\ btn_simulate = "normal"
    /\ seek_sequence # <<>>
    /\ table_rows = <<>>
    /\ placeholders = 0

\* ------------------------------------------------------------------------
\* C20 - the C-SCAN total against the per-move rows
\* ------------------------------------------------------------------------
\* the Cumulative Seek column of the last row simulate fills for a plan
LastCumulative(seq, head) ==
    LET rows == MoveRows(seq, head, DefaultMs)
    IN IF rows = <<>> THEN 0 ELSE rows[Len(rows)].cumulative

\* C20: for every cscan call with head and requests in [0, diskSize-1] and
\* either count_jump value, the Cumulative Seek of the last per-move row does
\* not exceed the total cscan returns.
C20_RowsWithinTotal ==
    (Returned("cscan") /\ ArgsInRange) =>
        LastCumulative(ret.seq, call.head) <= ret.total

\* ------------------------------------------------------------------------
\* C21 - the replay cursor
\* ------------------------------------------------------------------------
\* the step has the effects of reset_all on the fields (lines 459-463, 477)
ResetEffects ==
    /\ requests' = <<>>
    /\ seek_sequence' = <<>>
    /\ head_position' = 0
    /\ btn_simulate' = "disabled"

\* C21: in every reachable state 0 <= animation_index <= len(seek_sequence)
\* and, when animation_index > 0, head_position is the entry the cursor has
\* just passed (seek_sequence[animation_index - 1], 0-based); a step that
\* raises animation_index is a callback that raises it by exactly 1 and
\* leaves the sequence alone, and a step that lowers it sets it to 0 and is
\* a Simulate that plans or a Reset.
C21_ReplayCursor ==
    /\ [](/\ 0 <= animation_index
          /\ animation_index <= Len(seek_sequence)
          /\ animation_index > 0 =>
                head_position = seek_sequence[animation_index])
    /\ [][animation_index' > animation_index =>
             /\ animation_index' = animation_index + 1
             /\ timers > 0
             /\ UNCHANGED <<seek_sequence, timers>>]_vars
    /\ [][animation_index' < animation_index =>
             /\ animation_index' = 0
             /\ SimulatePlans \/ ResetEffects]_vars

\* the cursor is inside the sequence while a Generate issued during the
\* replay has already cleared the table
C21_Witness ==
    /\ timers = 1
    /\ animation_index > 0
    /\ animation_index < Len(seek_sequence)
    /\ head_position = seek_sequence[animation_index]
    /\ table_rows = <<>>
    /\ placeholders > 0

====
